---- MODULE Spec2Model ----
(***************************************************************************)
(* Model of parse_segment_prompt (src/app.py, lines 59-153): the rule-based *)
(* compiler that turns a free-text segmentation request into a cumulative  *)
(* sequence of filters over the customer table, plus the list of           *)
(* human-readable conditions.                                              *)
(*                                                                         *)
(* Python strings are modelled as sequences of one-character strings so    *)
(* that substring containment, lower() and capitalize() are computed       *)
(* character by character.  A DataFrame is the sequence of its rows, in    *)
(* row order.  The character U+2265 of the frequency condition is written  *)
(* ">=" (the module is ASCII).                                             *)
(***************************************************************************)
EXTENDS Integers, Sequences, FiniteSets, TLC

VARIABLES prompt, prompt_lower, customers_df, bookings_df,
          filtered_customers, conditions, trace, pc, shares_input, given

vars == <<prompt, prompt_lower, customers_df, bookings_df,
          filtered_customers, conditions, trace, pc, shares_input, given>>

(***************************************************************************)
(* Bounds of the model.                                                    *)
(***************************************************************************)
\* Largest number of words of a generated request.
MaxWords == 3

\* Largest number of rows of a generated customer table.
MaxCustomers == 4

(***************************************************************************)
(* Program constants.                                                      *)
(***************************************************************************)
\* quantile(0.75) = QuantileNum / QuantileDen
QuantileNum == 3

QuantileDen == 4

\* the reference year of the age computation
RefYear == 2026

YoungMin == 25

YoungMax == 40

SeniorMin == 65

(***************************************************************************)
(* Python str.                                                             *)
(***************************************************************************)
\* The characters of every string literal of the code and of the data.
Chars ==
    ("diamond" :> <<"d", "i", "a", "m", "o", "n", "d">>)
    @@ ("platinum" :> <<"p", "l", "a", "t", "i", "n", "u", "m">>)
    @@ ("gold" :> <<"g", "o", "l", "d">>)
    @@ ("silver" :> <<"s", "i", "l", "v", "e", "r">>)
    @@ ("none" :> <<"n", "o", "n", "e">>)
    @@ ("from" :> <<"f", "r", "o", "m">>)
    @@ ("in" :> <<"i", "n">>)
    @@ ("country" :> <<"c", "o", "u", "n", "t", "r", "y">>)
    @@ ("frequent" :> <<"f", "r", "e", "q", "u", "e", "n", "t">>)
    @@ ("high" :> <<"h", "i", "g", "h">>)
    @@ ("many" :> <<"m", "a", "n", "y">>)
    @@ ("inactive" :> <<"i", "n", "a", "c", "t", "i", "v", "e">>)
    @@ ("churned" :> <<"c", "h", "u", "r", "n", "e", "d">>)
    @@ ("active" :> <<"a", "c", "t", "i", "v", "e">>)
    @@ ("economy" :> <<"e", "c", "o", "n", "o", "m", "y">>)
    @@ ("business" :> <<"b", "u", "s", "i", "n", "e", "s", "s">>)
    @@ ("first" :> <<"f", "i", "r", "s", "t">>)
    @@ ("premium" :> <<"p", "r", "e", "m", "i", "u", "m">>)
    @@ ("young" :> <<"y", "o", "u", "n", "g">>)
    @@ ("millennial" :> <<"m", "i", "l", "l", "e", "n", "n", "i", "a", "l">>)
    @@ ("senior" :> <<"s", "e", "n", "i", "o", "r">>)
    @@ ("spend" :> <<"s", "p", "e", "n", "d">>)
    @@ ("Gold" :> <<"G", "o", "l", "d">>)
    @@ ("Platinum" :> <<"P", "l", "a", "t", "i", "n", "u", "m">>)
    @@ ("Silver" :> <<"S", "i", "l", "v", "e", "r">>)
    @@ ("USA" :> <<"U", "S", "A">>)
    @@ ("UK" :> <<"U", "K">>)
    @@ ("usa" :> <<"u", "s", "a">>)
    @@ ("uk" :> <<"u", "k">>)
    @@ ("Economy" :> <<"E", "c", "o", "n", "o", "m", "y">>)
    @@ ("Business" :> <<"B", "u", "s", "i", "n", "e", "s", "s">>)
    @@ ("Premium Economy" :> <<"P", "r", "e", "m", "i", "u", "m", " ", "E", "c", "o", "n", "o", "m", "y">>)
    @@ ("First" :> <<"F", "i", "r", "s", "t">>)
    @@ ("show" :> <<"s", "h", "o", "w">>)
    @@ ("Show" :> <<"S", "h", "o", "w">>)
    @@ ("me" :> <<"m", "e">>)
    @@ ("customers" :> <<"c", "u", "s", "t", "o", "m", "e", "r", "s">>)
    @@ ("who" :> <<"w", "h", "o">>)
    @@ ("fly" :> <<"f", "l", "y">>)
    @@ ("frequently" :> <<"f", "r", "e", "q", "u", "e", "n", "t", "l", "y">>)

UpperToLower ==
    ("A" :> "a") @@ ("B" :> "b") @@ ("C" :> "c") @@ ("D" :> "d") @@ ("E" :> "e") @@ ("F" :> "f")
    @@ ("G" :> "g") @@ ("H" :> "h") @@ ("I" :> "i") @@ ("J" :> "j") @@ ("K" :> "k") @@ ("L" :> "l")
    @@ ("M" :> "m") @@ ("N" :> "n") @@ ("O" :> "o") @@ ("P" :> "p") @@ ("Q" :> "q") @@ ("R" :> "r")
    @@ ("S" :> "s") @@ ("T" :> "t") @@ ("U" :> "u") @@ ("V" :> "v") @@ ("W" :> "w") @@ ("X" :> "x")
    @@ ("Y" :> "y") @@ ("Z" :> "z")

LowerToUpper ==
    ("a" :> "A") @@ ("b" :> "B") @@ ("c" :> "C") @@ ("d" :> "D") @@ ("e" :> "E") @@ ("f" :> "F")
    @@ ("g" :> "G") @@ ("h" :> "H") @@ ("i" :> "I") @@ ("j" :> "J") @@ ("k" :> "K") @@ ("l" :> "L")
    @@ ("m" :> "M") @@ ("n" :> "N") @@ ("o" :> "O") @@ ("p" :> "P") @@ ("q" :> "Q") @@ ("r" :> "R")
    @@ ("s" :> "S") @@ ("t" :> "T") @@ ("u" :> "U") @@ ("v" :> "V") @@ ("w" :> "W") @@ ("x" :> "X")
    @@ ("y" :> "Y") @@ ("z" :> "Z")

\* one character of str.lower()
LowerChar(c) == IF c \in DOMAIN UpperToLower THEN UpperToLower[c] ELSE c

\* one character of str.upper()
UpperChar(c) == IF c \in DOMAIN LowerToUpper THEN LowerToUpper[c] ELSE c

\* str.lower()
Lower(s) == [i \in 1..Len(s) |-> LowerChar(s[i])]

\* str.capitalize(): first character upper-cased, the rest lower-cased
Capitalize(s) == [i \in 1..Len(s) |-> IF i = 1 THEN UpperChar(s[i]) ELSE LowerChar(s[i])]

\* `kw in text` on Python strings: kw occurs as a contiguous substring
Contains(text, kw) ==
    \E i \in 1..(Len(text) - Len(kw) + 1) : SubSeq(text, i, i + Len(kw) - 1) = kw

\* the Python string made of the characters s (used by the f-strings)
RECURSIVE Str(_)
Str(s) == IF s = <<>> THEN "" ELSE s[1] \o Str(Tail(s))

\* the words joined by single spaces
RECURSIVE Join(_)
Join(ws) ==
    IF ws = <<>> THEN <<>>
    ELSE IF Len(ws) = 1 THEN Chars[ws[1]]
    ELSE Chars[ws[1]] \o <<" ">> \o Join(Tail(ws))

(***************************************************************************)
(* pandas.                                                                 *)
(***************************************************************************)
\* df[col]: the column as a sequence, in row order
Column(df, col) == [i \in 1..Len(df) |-> df[i][col]]

\* Series.unique(): the distinct values in order of first appearance
RECURSIVE Unique(_)
Unique(s) ==
    IF s = <<>> THEN <<>>
    ELSE LET init == Unique(SubSeq(s, 1, Len(s) - 1))
             last == s[Len(s)]
         IN  IF \E i \in 1..Len(init) : init[i] = last THEN init ELSE Append(init, last)

\* `for x in list: if test(x): ...; break`: the index of the first element
\* that passes the test, given the test results in list order; 0 when the
\* loop ends without a break
FirstIndex(passes) ==
    IF \E i \in 1..Len(passes) : passes[i]
    THEN CHOOSE i \in 1..Len(passes) : passes[i] /\ \A j \in 1..(i - 1) : ~passes[j]
    ELSE 0

\* float('nan'), the quantile of an empty Series
NaN == [nan |-> TRUE, num |-> 0]

\* Series.quantile(0.75), linear interpolation between the two closest ranks
\* of the sorted values: the result is num / QuantileDen
Quantile(values) ==
    IF values = <<>> THEN NaN
    ELSE LET s   == SortSeq(values, LAMBDA a, b : a < b)
             pos == QuantileNum * (Len(s) - 1)
             lo  == pos \div QuantileDen
             rem == pos % QuantileDen
         IN  [nan |-> FALSE,
              num |-> QuantileDen * s[lo + 1]
                      + (IF rem = 0 THEN 0 ELSE rem * (s[lo + 2] - s[lo + 1]))]

\* the comparison written > instead of >=
GreaterEqual_Strict(value, threshold) ==
    ~threshold.nan /\ value * QuantileDen > threshold.num

\* value >= threshold; every comparison with NaN is False
GreaterEqual(value, threshold) ==
    ~threshold.nan /\ value * QuantileDen >= threshold.num

\* int(threshold) of a non-negative float: truncation (int(NaN) raises)
IntOf(threshold) == threshold.num \div QuantileDen

\* the absent bookings table (bookings_df is None) and a present one
None == [present |-> FALSE, rows |-> <<>>]

DataFrame(rows) == [present |-> TRUE, rows |-> rows]

\* sum of a sequence of amounts
RECURSIVE Sum(_)
Sum(s) == IF s = <<>> THEN 0 ELSE s[1] + Sum(Tail(s))

\* the elements of a set of integers in ascending order (groupby sorts its keys)
RECURSIVE Ascending(_)
Ascending(S) ==
    IF S = {} THEN <<>>
    ELSE LET m == CHOOSE x \in S : \A y \in S : x <= y
         IN  <<m>> \o Ascending(S \ {m})

\* the per-customer sum taken over the bookings of every status
CustomerSpend_AllStatuses(bookings) ==
    LET ids == {bookings[i].customer_id : i \in 1..Len(bookings)}
    IN  [c \in ids |->
            Sum(Column(SelectSeq(bookings, LAMBDA b : b.customer_id = c), "total_amount"))]

\* bookings[status == 'Completed'].groupby('customer_id')['total_amount'].sum()
CustomerSpend(bookings) ==
    LET completed == SelectSeq(bookings, LAMBDA b : b.booking_status = "Completed")
        ids       == {completed[i].customer_id : i \in 1..Len(completed)}
    IN  [c \in ids |->
            Sum(Column(SelectSeq(completed, LAMBDA b : b.customer_id = c), "total_amount"))]

\* customer_spend[customer_spend >= customer_spend.quantile(0.75)].index
HighSpenders(bookings) ==
    LET customer_spend == CustomerSpend(bookings)
        index          == Ascending(DOMAIN customer_spend)
        threshold      == Quantile([i \in 1..Len(index) |-> customer_spend[index[i]]])
    IN  {c \in DOMAIN customer_spend : GreaterEqual(customer_spend[c], threshold)}

\* the row with the derived column 'age' written: reference year minus the
\* year of date_of_birth
WithAge(r) ==
    [f \in DOMAIN r \cup {"age"} |->
        IF f = "age" THEN RefYear - r["date_of_birth"].year ELSE r[f]]

(***************************************************************************)
(* The seven matchers.  Each takes the working table df and the condition  *)
(* list and gives the two back.                                            *)
(***************************************************************************)
loyalty_tiers == <<"diamond", "platinum", "gold", "silver", "none">>

cabin_classes == <<"economy", "business", "first", "premium">>

Has(pl, kw) == Contains(pl, Chars[kw])

\* the priority list scanned from its end
TierMatcher_LastWins(pl, df, conds) ==
    LET hits == {i \in 1..Len(loyalty_tiers) : Has(pl, loyalty_tiers[i])}
    IN  IF hits = {} THEN [df |-> df, conditions |-> conds]
        ELSE LET tier == loyalty_tiers[CHOOSE i \in hits : \A j \in hits : j <= i]
             IN  [df |-> SelectSeq(df, LAMBDA r : Lower(Chars[r.loyalty_tier]) = Chars[tier]),
                  conditions |-> Append(conds, "Loyalty tier: " \o Str(Capitalize(Chars[tier])))]

\* lines 66-74
TierMatcher(pl, df, conds) ==
    LET k == FirstIndex([i \in 1..Len(loyalty_tiers) |-> Has(pl, loyalty_tiers[i])])
    IN  IF k = 0 THEN [df |-> df, conditions |-> conds]
        ELSE LET tier == loyalty_tiers[k]
             IN  [df |-> SelectSeq(df, LAMBDA r : Lower(Chars[r.loyalty_tier]) = Chars[tier]),
                  conditions |-> Append(conds, "Loyalty tier: " \o Str(Capitalize(Chars[tier])))]

\* the country scan run without the trigger-word test
CountryMatcher_NoTrigger(pl, df, conds) ==
    LET countries == Unique(Column(df, "country"))
        k == FirstIndex([i \in 1..Len(countries) |->
                            Contains(pl, Lower(Chars[countries[i]]))])
    IN  IF k = 0 THEN [df |-> df, conditions |-> conds]
        ELSE LET country == countries[k]
             IN  [df |-> SelectSeq(df, LAMBDA r :
                             Lower(Chars[r.country]) = Lower(Chars[country])),
                  conditions |-> Append(conds, "Country: " \o country)]

\* lines 76-86
CountryMatcher(pl, df, conds) ==
    IF Has(pl, "from") \/ Has(pl, "in") \/ Has(pl, "country")
    THEN LET countries == Unique(Column(df, "country"))
             k == FirstIndex([i \in 1..Len(countries) |->
                                 Contains(pl, Lower(Chars[countries[i]]))])
         IN  IF k = 0 THEN [df |-> df, conditions |-> conds]
             ELSE LET country == countries[k]
                  IN  [df |-> SelectSeq(df, LAMBDA r :
                                  Lower(Chars[r.country]) = Lower(Chars[country])),
                       conditions |-> Append(conds, "Country: " \o country)]
    ELSE [df |-> df, conditions |-> conds]

\* the threshold taken over the whole input table instead of the working one
FrequencyMatcher_Global(pl, df, conds) ==
    IF Has(pl, "frequent") \/ Has(pl, "high") \/ Has(pl, "many")
    THEN LET threshold == Quantile(Column(customers_df, "total_flights"))
             kept == SelectSeq(df, LAMBDA r : GreaterEqual(r.total_flights, threshold))
         IN  IF threshold.nan
             THEN [df |-> kept, conditions |-> conds, raised |-> TRUE]
             ELSE [df |-> kept,
                   conditions |-> Append(conds,
                       "Frequent flyers (>=" \o ToString(IntOf(threshold)) \o " flights)"),
                   raised |-> FALSE]
    ELSE [df |-> df, conditions |-> conds, raised |-> FALSE]

\* lines 88-94; raised: int(threshold) raises ValueError on NaN, after the
\* table has been narrowed and before the condition is appended
FrequencyMatcher(pl, df, conds) ==
    IF Has(pl, "frequent") \/ Has(pl, "high") \/ Has(pl, "many")
    THEN LET threshold == Quantile(Column(df, "total_flights"))
             kept == SelectSeq(df, LAMBDA r : GreaterEqual(r.total_flights, threshold))
         IN  IF threshold.nan
             THEN [df |-> kept, conditions |-> conds, raised |-> TRUE]
             ELSE [df |-> kept,
                   conditions |-> Append(conds,
                       "Frequent flyers (>=" \o ToString(IntOf(threshold)) \o " flights)"),
                   raised |-> FALSE]
    ELSE [df |-> df, conditions |-> conds, raised |-> FALSE]

\* lines 96-100
InactiveBranch(pl, df, conds) ==
    IF Has(pl, "inactive") \/ Has(pl, "churned")
    THEN [df |-> SelectSeq(df, LAMBDA r : r.is_active = FALSE),
          conditions |-> Append(conds, "Status: Inactive")]
    ELSE [df |-> df, conditions |-> conds]

\* lines 102-106
ActiveBranch(pl, df, conds) ==
    IF Has(pl, "active") /\ ~Has(pl, "inactive")
    THEN [df |-> SelectSeq(df, LAMBDA r : r.is_active = TRUE),
          conditions |-> Append(conds, "Status: Active")]
    ELSE [df |-> df, conditions |-> conds]

\* lines 96-106: the two `if` statements run one after the other
ActivityMatcher(pl, df, conds) ==
    LET first == InactiveBranch(pl, df, conds)
    IN  ActiveBranch(pl, first.df, first.conditions)

\* lines 108-116
CabinMatcher(pl, df, conds) ==
    LET k == FirstIndex([i \in 1..Len(cabin_classes) |-> Has(pl, cabin_classes[i])])
    IN  IF k = 0 THEN [df |-> df, conditions |-> conds]
        ELSE LET cabin == cabin_classes[k]
             IN  [df |-> SelectSeq(df, LAMBDA r :
                             Contains(Lower(Chars[r.preferred_class]), Chars[cabin])),
                  conditions |-> Append(conds, "Preferred class: " \o Str(Capitalize(Chars[cabin])))]

\* lines 119-126
YoungBranch(pl, df, conds) ==
    IF Has(pl, "young") \/ Has(pl, "millennial")
    THEN LET aged == [i \in 1..Len(df) |-> WithAge(df[i])]
         IN  [df |-> SelectSeq(aged, LAMBDA r : r["age"] >= YoungMin /\ r["age"] <= YoungMax),
              conditions |-> Append(conds, "Age: 25-40")]
    ELSE [df |-> df, conditions |-> conds]

\* lines 128-133
SeniorBranch(pl, df, conds) ==
    IF Has(pl, "senior")
    THEN LET aged == [i \in 1..Len(df) |-> WithAge(df[i])]
         IN  [df |-> SelectSeq(aged, LAMBDA r : r["age"] >= SeniorMin),
              conditions |-> Append(conds, "Age: 65+")]
    ELSE [df |-> df, conditions |-> conds]

\* lines 118-133: the two `if` statements run one after the other
AgeMatcher(pl, df, conds) ==
    LET first == YoungBranch(pl, df, conds)
    IN  SeniorBranch(pl, first.df, first.conditions)

\* lines 135-148
SpendMatcher(pl, df, conds, bookings) ==
    IF bookings.present /\ Has(pl, "spend")
    THEN LET high_spenders == HighSpenders(bookings.rows)
         IN  [df |-> SelectSeq(df, LAMBDA r : r.customer_id \in high_spenders),
              conditions |-> Append(conds, "High spenders (top 25%)")]
    ELSE [df |-> df, conditions |-> conds]

\* the sentinel appended whatever the list holds
WithSentinel_Always(conds) == Append(conds, "All customers (no filters applied)")

\* lines 150-151
WithSentinel(conds) ==
    IF conds = <<>> THEN <<"All customers (no filters applied)">> ELSE conds

(***************************************************************************)
(* The inputs of a call.                                                   *)
(***************************************************************************)
Customer(id, tier, country, flights, active, class, year) ==
    [customer_id |-> id, loyalty_tier |-> tier, country |-> country,
     total_flights |-> flights, is_active |-> active, preferred_class |-> class,
     date_of_birth |-> [year |-> year, month |-> 6, day |-> 15]]

Booking(id, customer, status, amount) ==
    [booking_id |-> id, customer_id |-> customer, booking_status |-> status,
     total_amount |-> amount]

\* the customers the tables are drawn from
Roster ==
    << Customer(1, "Gold",     "USA", 50, TRUE,  "Economy",         1962),
       Customer(2, "Gold",     "USA", 5,  FALSE, "Business",        1961),
       Customer(3, "Platinum", "UK",  80, TRUE,  "Premium Economy", 2001),
       Customer(4, "Gold",     "USA", 60, TRUE,  "First",           1986),
       Customer(5, "Platinum", "usa", 60, FALSE, "Economy",         1985) >>

\* the elements of seq at the positions S, in order
Pick(seq, S) ==
    LET idx == SelectSeq([i \in 1..Len(seq) |-> i], LAMBDA i : i \in S)
    IN  [k \in 1..Len(idx) |-> seq[idx[k]]]

\* the subsequences of seq of at most n elements
SubSequences(seq, n) ==
    {Pick(seq, S) : S \in {T \in SUBSET (1..Len(seq)) : Cardinality(T) <= n}}

\* the population of the end-to-end example
ExamplePopulation == Pick(Roster, {1, 2, 3, 4})

\* the words the generated requests are made of, in the order they are used
Sentence ==
    << "show", "gold", "platinum", "from", "uk", "USA", "frequent", "churned",
       "active", "inactive", "economy", "young", "senior", "spend" >>

\* "Show me gold customers from USA who fly frequently"
ExampleWords ==
    << "Show", "me", "gold", "customers", "from", "USA", "who", "fly", "frequently" >>

Prompts == {Join(ws) : ws \in SubSequences(Sentence, MaxWords) \cup {ExampleWords}}

Populations == SubSequences(Roster, MaxCustomers) \cup {ExamplePopulation}

BookingTables ==
    { None,
      DataFrame(<< Booking(1, 1, "Completed", 100), Booking(2, 4, "Cancelled", 1000),
                   Booking(3, 3, "Completed", 400), Booking(4, 2, "Completed", 40),
                   Booking(5, 1, "Completed", 50), Booking(9, 5, "Completed", 400) >>),
      DataFrame(<< Booking(6, 2, "Completed", 300), Booking(7, 5, "Pending", 20) >>),
      DataFrame(<< Booking(8, 5, "Cancelled", 20) >>) }

(***************************************************************************)
(* The call.  pc is the matcher about to run; trace[k] is the working      *)
(* table and the condition list as the k-th matcher left them.             *)
(* customers_df and bookings_df are the caller's objects; shares_input     *)
(* says that filtered_customers names the very object customers_df names,  *)
(* so that a column written on the one is written on the other; given is   *)
(* the content of the caller's two tables when the call started.           *)
(***************************************************************************)
\* filtered_customers = customers_df without the copy: one object, two names
CopyShares_Alias == TRUE

\* line 62: DataFrame.copy() gives a new object with its own data
CopyShares == FALSE

\* the matcher bound filtered_customers to a new object: boolean indexing
\* (lines 70, 82, 91, 97, 103, 112, 123, 132, 145) always builds a new table
Reassigned(before, result) ==
    \/ result.conditions # before
    \/ ("raised" \in DOMAIN result /\ result.raised)

\* lines 59-64
Init ==
    /\ prompt \in Prompts
    /\ customers_df \in Populations
    /\ bookings_df \in BookingTables
    /\ prompt_lower = Lower(prompt)
    /\ filtered_customers = customers_df
    /\ conditions = <<>>
    /\ trace = <<>>
    /\ pc = "tier"
    /\ shares_input = CopyShares
    /\ given = [customers |-> customers_df, bookings |-> bookings_df]

Step(from, to, result) ==
    /\ pc = from
    /\ filtered_customers' = result.df
    /\ conditions' = result.conditions
    /\ trace' = Append(trace, [df |-> result.df, conditions |-> result.conditions])
    /\ pc' = to
    /\ shares_input' = (shares_input /\ ~Reassigned(conditions, result))
    /\ UNCHANGED <<prompt, prompt_lower, customers_df, bookings_df, given>>

Tier == Step("tier", "country", TierMatcher(prompt_lower, filtered_customers, conditions))

Country == Step("country", "frequency", CountryMatcher(prompt_lower, filtered_customers, conditions))

Frequency ==
    LET result == FrequencyMatcher(prompt_lower, filtered_customers, conditions)
    IN  Step("frequency", IF result.raised THEN "raised" ELSE "activity", result)

\* the activity matcher filtering the input table instead of the working one
Activity_OnInput ==
    Step("activity", "cabin", ActivityMatcher(prompt_lower, customers_df, conditions))

Activity == Step("activity", "cabin", ActivityMatcher(prompt_lower, filtered_customers, conditions))

Cabin == Step("cabin", "age", CabinMatcher(prompt_lower, filtered_customers, conditions))

\* lines 118-133; the first assignment to the column 'age' (line 120, or
\* line 129 when the first branch is skipped) writes on the object
\* filtered_customers names on entry, the caller's table if it is shared
Age ==
    LET result == AgeMatcher(prompt_lower, filtered_customers, conditions)
    IN  /\ pc = "age"
        /\ filtered_customers' = result.df
        /\ conditions' = result.conditions
        /\ trace' = Append(trace, [df |-> result.df, conditions |-> result.conditions])
        /\ pc' = "spend"
        /\ shares_input' = (shares_input /\ ~Reassigned(conditions, result))
        /\ customers_df' =
              IF shares_input /\ Reassigned(conditions, result)
              THEN [i \in 1..Len(customers_df) |-> WithAge(customers_df[i])]
              ELSE customers_df
        /\ UNCHANGED <<prompt, prompt_lower, bookings_df, given>>

Spend ==
    Step("spend", "return",
         SpendMatcher(prompt_lower, filtered_customers, conditions, bookings_df))

\* lines 150-153
Return ==
    /\ pc = "return"
    /\ conditions' = WithSentinel(conditions)
    /\ pc' = "returned"
    /\ UNCHANGED <<prompt, prompt_lower, customers_df, bookings_df,
                   filtered_customers, trace, shares_input, given>>

Next ==
    \/ Tier
    \/ Country
    \/ Frequency
    \/ Activity
    \/ Cabin
    \/ Age
    \/ Spend
    \/ Return

Spec == Init /\ [][Next]_vars

(***************************************************************************)
(* Vocabulary of the properties.                                           *)
(***************************************************************************)
\* the customer ids of a table, as a set and in row order
Ids(df) == {df[i].customer_id : i \in 1..Len(df)}

IdSeq(df) == Column(df, "customer_id")

\* the working table and the condition list the k-th matcher started from
Before(k) == IF k = 1 THEN customers_df ELSE trace[k - 1].df

ConditionsBefore(k) == IF k = 1 THEN <<>> ELSE trace[k - 1].conditions

\* the k-th matcher appended a condition
Fired(k) == trace[k].conditions # ConditionsBefore(k)

InText(kw) == Contains(prompt_lower, Chars[kw])

\* the k-th smallest of a sequence of numbers, by rank
KthSmallest(values, k) ==
    CHOOSE v \in {values[i] : i \in 1..Len(values)} :
        /\ Cardinality({i \in 1..Len(values) : values[i] < v}) < k
        /\ k <= Cardinality({i \in 1..Len(values) : values[i] <= v})

\* four times the 75th percentile (linear interpolation) of a non-empty
\* sequence of numbers
Percentile75x4(values) ==
    LET pos  == 3 * (Len(values) - 1)
        lo   == pos \div 4
        frac == pos % 4
    IN  IF frac = 0 THEN 4 * KthSmallest(values, lo + 1)
        ELSE (4 - frac) * KthSmallest(values, lo + 1)
             + frac * KthSmallest(values, lo + 2)

Sentinel == "All customers (no filters applied)"

(***************************************************************************)
(* C1                                                                      *)
(***************************************************************************)
\* C1: the returned customers are a subset, by customer id, of the input
\* table, and the working table after each matcher is a subset of the
\* working table before it, with no more rows: matchers only remove rows.
SubsetOfInput ==
    /\ Ids(filtered_customers) \subseteq Ids(customers_df)
    /\ Len(filtered_customers) <= Len(customers_df)
    /\ \A k \in 1..Len(trace) :
          /\ Ids(trace[k].df) \subseteq Ids(Before(k))
          /\ Len(trace[k].df) <= Len(Before(k))

\* a call that returned a non-empty table which two different matchers narrowed
SubsetOfInput_Witness ==
    /\ pc = "returned"
    /\ filtered_customers # <<>>
    /\ Cardinality({k \in 1..Len(trace) : Len(trace[k].df) < Len(Before(k))}) >= 2

(***************************************************************************)
(* C2                                                                      *)
(***************************************************************************)
FrequencyKeyword == InText("frequent") \/ InText("high") \/ InText("many")

\* the rows of df whose total_flights is at least the 75th percentile of
\* total_flights over the table `over`
AtLeastPercentile(df, over) ==
    SelectSeq(df, LAMBDA r :
        4 * r.total_flights >= Percentile75x4(Column(over, "total_flights")))

\* C2: with a frequency keyword in the request the frequency matcher keeps
\* exactly the rows of the working table left by the tier and country
\* matchers whose total_flights is at least the 75th percentile of that
\* working table; on the end-to-end example the working table is C1, C2, C4
\* after the tier and after the country matcher, the threshold is 55, the
\* result is C4 and the conditions are the three of the example.
FrequencyOverNarrowed ==
    /\ (Len(trace) >= 3 /\ FrequencyKeyword) =>
          /\ trace[3].df = AtLeastPercentile(trace[2].df, trace[2].df)
          /\ trace[2].df # <<>> =>
                trace[3].conditions =
                    Append(trace[2].conditions,
                           "Frequent flyers (>="
                           \o ToString(Percentile75x4(Column(trace[2].df, "total_flights")) \div 4)
                           \o " flights)")
    /\ (prompt = Join(ExampleWords) /\ customers_df = ExamplePopulation) =>
          /\ Len(trace) >= 1 => IdSeq(trace[1].df) = <<1, 2, 4>>
          /\ Len(trace) >= 2 => IdSeq(trace[2].df) = <<1, 2, 4>>
          /\ Len(trace) >= 3 => IdSeq(trace[3].df) = <<4>>
          /\ pc = "returned" =>
                /\ IdSeq(filtered_customers) = <<4>>
                /\ conditions = << "Loyalty tier: Gold", "Country: USA",
                                   "Frequent flyers (>=55 flights)" >>

\* the end-to-end example has returned, and the percentile of the whole
\* input table would have kept other rows
FrequencyOverNarrowed_Witness ==
    /\ pc = "returned"
    /\ prompt = Join(ExampleWords)
    /\ customers_df = ExamplePopulation
    /\ trace[2].df # customers_df
    /\ trace[3].df # <<>>
    /\ trace[3].df # AtLeastPercentile(trace[2].df, customers_df)

(***************************************************************************)
(* C3                                                                      *)
(***************************************************************************)
\* C3: each of the seven matchers appends at most one condition, so the
\* returned list has as many conditions as matchers fired, at most 7, or is
\* the sentinel alone when none fired.
OneConditionPerMatcher ==
    /\ \A k \in 1..Len(trace) :
          \/ trace[k].conditions = ConditionsBefore(k)
          \/ \E c \in {trace[k].conditions[Len(trace[k].conditions)]} :
                trace[k].conditions = Append(ConditionsBefore(k), c)
    /\ pc = "returned" =>
          LET fired == Cardinality({k \in 1..Len(trace) : Fired(k)})
          IN  /\ Len(conditions) <= 7
              /\ IF fired = 0 THEN conditions = <<Sentinel>>
                 ELSE Len(conditions) = fired

(***************************************************************************)
(* C4                                                                      *)
(***************************************************************************)
\* the request holds no tier, frequency, activity, cabin, age or spend
\* keyword, and no trigger word or no country of the input table
NoMatcherKeyword ==
    /\ \A i \in 1..Len(loyalty_tiers) : ~InText(loyalty_tiers[i])
    /\ ~FrequencyKeyword
    /\ ~InText("inactive") /\ ~InText("churned") /\ ~InText("active")
    /\ \A i \in 1..Len(cabin_classes) : ~InText(cabin_classes[i])
    /\ ~InText("young") /\ ~InText("millennial") /\ ~InText("senior")
    /\ ~InText("spend")
    /\ \/ ~(InText("from") \/ InText("in") \/ InText("country"))
       \/ \A i \in 1..Len(customers_df) :
             ~Contains(prompt_lower, Lower(Chars[customers_df[i].country]))

\* C4: when no matcher fires the call returns the input table, same rows in
\* the same order, with the sentinel as the only condition; the sentinel is
\* never in the list together with another condition.
SentinelOnly ==
    /\ (pc = "returned" /\ NoMatcherKeyword) =>
          /\ filtered_customers = customers_df
          /\ conditions = <<Sentinel>>
    /\ \A i \in 1..Len(conditions) : conditions[i] = Sentinel => Len(conditions) = 1

\* a call returned for a non-empty table and a request that names a country
\* of the table without any trigger word
SentinelOnly_Witness ==
    /\ pc = "returned"
    /\ NoMatcherKeyword
    /\ Len(customers_df) >= 2
    /\ \E i \in 1..Len(customers_df) :
          Contains(prompt_lower, Lower(Chars[customers_df[i].country]))

(***************************************************************************)
(* C5                                                                      *)
(***************************************************************************)
\* the tier the priority list diamond, platinum, gold, silver, none selects
\* for the request, "" when the request holds no tier keyword
SelectedTier ==
    IF InText("diamond") THEN "Diamond"
    ELSE IF InText("platinum") THEN "Platinum"
    ELSE IF InText("gold") THEN "Gold"
    ELSE IF InText("silver") THEN "Silver"
    ELSE IF InText("none") THEN "None"
    ELSE ""

TierConditions ==
    {"Loyalty tier: " \o t : t \in {"Diamond", "Platinum", "Gold", "Silver", "None"}}

\* C5: a request with tier keywords is restricted to the one tier that comes
\* first in the priority list among the keywords it contains, with exactly
\* one "Loyalty tier" condition; a request without tier keyword gets no tier
\* condition and no tier narrowing.
TierPriority ==
    Len(trace) >= 1 =>
       /\ IF SelectedTier = ""
          THEN trace[1] = [df |-> customers_df, conditions |-> <<>>]
          ELSE /\ trace[1].df =
                    SelectSeq(customers_df, LAMBDA r : r.loyalty_tier = SelectedTier)
               /\ trace[1].conditions = <<"Loyalty tier: " \o SelectedTier>>
       /\ Cardinality({i \in 1..Len(conditions) : conditions[i] \in TierConditions})
             = IF SelectedTier = "" THEN 0 ELSE 1

\* the tier matcher ran on a request that says "gold" before "platinum" and
\* on a table holding customers of both tiers
TierPriority_Witness ==
    /\ Len(trace) >= 1
    /\ InText("gold") /\ InText("platinum")
    /\ \E i \in 1..Len(customers_df) : customers_df[i].loyalty_tier = "Gold"
    /\ Ids(trace[1].df) # {}
    /\ \A i \in 1..Len(trace[1].df) : trace[1].df[i].loyalty_tier = "Platinum"

(***************************************************************************)
(* C6                                                                      *)
(***************************************************************************)
Listed(c) == \E i \in 1..Len(conditions) : conditions[i] = c

\* C6: at most one of "Status: Inactive" and "Status: Active" is produced,
\* and a request containing "inactive" or "churned" gets the inactive-rows
\* restriction only.
ActivityExclusive ==
    /\ ~(Listed("Status: Inactive") /\ Listed("Status: Active"))
    /\ (Len(trace) >= 4 /\ (InText("inactive") \/ InText("churned"))) =>
          /\ trace[4].df = SelectSeq(trace[3].df, LAMBDA r : ~r.is_active)
          /\ trace[4].conditions = Append(trace[3].conditions, "Status: Inactive")

(***************************************************************************)
(* C7                                                                      *)
(***************************************************************************)
AgeOf(r) == 2026 - r.date_of_birth.year

\* C7: a request containing "young" or "millennial" gets the age 25-40
\* restriction only, also when it contains "senior"; "Age: 25-40" and
\* "Age: 65+" never both appear; the age >= 65 restriction is applied only
\* for "senior" without "young" and "millennial".
AgeFirstWins ==
    /\ ~(Listed("Age: 25-40") /\ Listed("Age: 65+"))
    /\ (Len(trace) >= 6 /\ (InText("young") \/ InText("millennial"))) =>
          /\ IdSeq(trace[6].df) =
                IdSeq(SelectSeq(trace[5].df, LAMBDA r : AgeOf(r) >= 25 /\ AgeOf(r) <= 40))
          /\ trace[6].conditions = Append(trace[5].conditions, "Age: 25-40")
    /\ (Len(trace) >= 6 /\ InText("senior") /\ ~InText("young") /\ ~InText("millennial")) =>
          /\ IdSeq(trace[6].df) = IdSeq(SelectSeq(trace[5].df, LAMBDA r : AgeOf(r) >= 65))
          /\ trace[6].conditions = Append(trace[5].conditions, "Age: 65+")

(***************************************************************************)
(* C8                                                                      *)
(***************************************************************************)
\* the summed total_amount of the "Completed" bookings of customer c
RECURSIVE CompletedSpend(_, _)
CompletedSpend(c, rows) ==
    IF rows = <<>> THEN 0
    ELSE (IF rows[1].customer_id = c /\ rows[1].booking_status = "Completed"
          THEN rows[1].total_amount ELSE 0)
         + CompletedSpend(c, Tail(rows))

\* the customers with at least one "Completed" booking
Spenders ==
    {bookings_df.rows[i].customer_id :
        i \in {j \in 1..Len(bookings_df.rows) :
                  bookings_df.rows[j].booking_status = "Completed"}}

\* the spenders whose completed spend is at least the 75th percentile of the
\* completed spend of all spenders
TopSpenders ==
    LET order == Ascending(Spenders)
        spend == [i \in 1..Len(order) |-> CompletedSpend(order[i], bookings_df.rows)]
    IN  {c \in Spenders :
            4 * CompletedSpend(c, bookings_df.rows) >= Percentile75x4(spend)}

\* C8: with a bookings table and "spend" in the request the spend matcher
\* keeps the rows of the narrowed table whose customer is a top spender, the
\* threshold being the 75th percentile of the completed spend of all
\* customers with a "Completed" booking, whatever the earlier matchers
\* removed; without a bookings table it changes nothing.
SpendOverAllCompleted ==
    Len(trace) >= 7 =>
       IF bookings_df.present /\ InText("spend")
       THEN /\ trace[7].df =
                 SelectSeq(trace[6].df, LAMBDA r : r.customer_id \in TopSpenders)
            /\ trace[7].conditions =
                 Append(trace[6].conditions, "High spenders (top 25%)")
       ELSE trace[7] = trace[6]

\* the spend matcher ran after an earlier matcher removed a top spender, kept
\* some customer, and dropped a customer whose only bookings are not
\* "Completed"
SpendOverAllCompleted_Witness ==
    /\ Len(trace) >= 7
    /\ bookings_df.present /\ InText("spend")
    /\ trace[7].df # <<>>
    /\ \E c \in TopSpenders : c \in Ids(customers_df) /\ c \notin Ids(trace[6].df)
    /\ \E c \in Ids(trace[6].df) \ Ids(trace[7].df) :
          /\ c \notin Spenders
          /\ \E i \in 1..Len(bookings_df.rows) : bookings_df.rows[i].customer_id = c

(***************************************************************************)
(* C9                                                                      *)
(***************************************************************************)
\* C9: when the tier and country matchers have emptied the working table and
\* the request contains a frequency keyword, the call still returns: no
\* error reaches the caller.
ReturnsOnEmpty ==
    (Len(trace) >= 3 /\ FrequencyKeyword /\ trace[2].df = <<>>) => pc # "raised"

(***************************************************************************)
(* C10                                                                     *)
(***************************************************************************)
CountryConditions == {"Country: " \o Roster[i].country : i \in 1..Len(Roster)}

\* the rows of the tier-narrowed table whose country occurs in the request
NamedRows ==
    {i \in 1..Len(trace[1].df) :
        Contains(prompt_lower, Lower(Chars[trace[1].df[i].country]))}

\* C10: the country matcher narrows only when the request contains "from",
\* "in" or "country" and a country of the tier-narrowed table occurs in the
\* request; it then keeps the rows of one country, that of the first such
\* row of the table (compared without regard to letter case), and appends
\* one "Country" condition naming it; in every other case it leaves the
\* table and the conditions as they were.
CountryFirstInPopulation ==
    Len(trace) >= 2 =>
       /\ IF (InText("from") \/ InText("in") \/ InText("country")) /\ NamedRows # {}
          THEN LET first == trace[1].df[CHOOSE i \in NamedRows :
                                           \A j \in NamedRows : i <= j].country
               IN  /\ trace[2].df =
                        SelectSeq(trace[1].df, LAMBDA r :
                            Lower(Chars[r.country]) = Lower(Chars[first]))
                   /\ trace[2].conditions =
                        Append(trace[1].conditions, "Country: " \o first)
          ELSE trace[2] = trace[1]
       /\ Cardinality({i \in 1..Len(conditions) : conditions[i] \in CountryConditions}) <= 1

\* the country matcher ran on a request that says "uk" before "usa" and on a
\* table whose first row is from the USA and that holds a UK row, and kept
\* the USA rows
CountryFirstInPopulation_Witness ==
    /\ Len(trace) >= 2
    /\ InText("uk") /\ InText("usa")
    /\ trace[1].df # <<>>
    /\ trace[1].df[1].country = "USA"
    /\ \E i \in 1..Len(trace[1].df) : trace[1].df[i].country = "UK"
    /\ trace[2].df # <<>>
    /\ \A i \in 1..Len(trace[2].df) : trace[2].df[i].country = "USA"

(***************************************************************************)
(* C11                                                                     *)
(***************************************************************************)
\* C11: the call leaves its inputs as they were: at every point of the
\* call, whatever matchers fired, the caller's customer table and bookings
\* table hold the rows, fields and values they held when the call started;
\* the derived field age is written on the working table only.
InputsUnchanged ==
    /\ customers_df = given.customers
    /\ bookings_df = given.bookings
    /\ \A i \in 1..Len(customers_df) : "age" \notin DOMAIN customers_df[i]

\* the call returned after the age matcher, the first matcher to fire, wrote
\* the field age on the rows of the working table, some of which it kept
InputsUnchanged_Witness ==
    /\ pc = "returned"
    /\ \A k \in 1..5 : ~Fired(k)
    /\ Fired(6)
    /\ filtered_customers # <<>>
    /\ \A i \in 1..Len(filtered_customers) : "age" \in DOMAIN filtered_customers[i]
    /\ bookings_df.present

(***************************************************************************)
(* C12                                                                     *)
(***************************************************************************)
\* the largest total_flights of a non-empty table
MaxFlights(df) ==
    CHOOSE m \in {df[i].total_flights : i \in 1..Len(df)} :
        \A i \in 1..Len(df) : df[i].total_flights <= m

\* C12: the frequency matcher never empties a non-empty working table: with
\* a frequency keyword in the request it keeps every row whose total_flights
\* is the maximum of the table it received, and a single row is kept.
FrequencyKeepsMaximum ==
    (Len(trace) >= 3 /\ FrequencyKeyword /\ trace[2].df # <<>>) =>
       /\ trace[3].df # <<>>
       /\ SelectSeq(trace[3].df, LAMBDA r : r.total_flights = MaxFlights(trace[2].df))
             = SelectSeq(trace[2].df, LAMBDA r : r.total_flights = MaxFlights(trace[2].df))
       /\ Len(trace[2].df) = 1 => trace[3].df = trace[2].df
       /\ pc # "raised"

\* the frequency matcher received several rows, two of them at the maximum,
\* removed a row and kept both
FrequencyKeepsMaximum_Witness ==
    /\ Len(trace) >= 3
    /\ FrequencyKeyword
    /\ Len(trace[3].df) < Len(trace[2].df)
    /\ Cardinality({i \in 1..Len(trace[3].df) :
                       trace[3].df[i].total_flights = MaxFlights(trace[2].df)}) >= 2

====
